---- MODULE Spec2Model ----
(***************************************************************************)
(* The orchestration core of the multi-agent image analysis system:        *)
(* CoordinatorAgent (registry, system status, workflow, health check),    *)
(* the ModelManagementAgent instances with the process-wide                *)
(* st.cache_resource cache of their two cached loaders, the AnalysisAgent  *)
(* with its history, and the ImageProcessingAgent's format validation.     *)
(*                                                                         *)
(* Every handler is a chain of steps of one thread (pc, frame).  Under     *)
(* Spec, SpecShared, SpecAnalysis, SpecHealth, SpecValidate, SpecWorkflow  *)
(* and SpecRead a call starts only when no other call is in flight, so     *)
(* each handler runs as a whole; under SpecLoad, SpecRun, SpecLedger and   *)
(* SpecInfer the calls of different threads interleave step by step.       *)
(***************************************************************************)
EXTENDS Integers, Sequences, FiniteSets, TLC

\* ------------------------------------------------------------- bounds
NumThreads == 2
MaxOps == 2
MaxLoads == 3
MaxTime == 1
MaxHist == 3
MaxPrompts == 3
MaxName == 5

Threads == 1..NumThreads
Times == 1..MaxTime

\* ---------------------------------------------------------- constants
ModelId == "Salesforce/blip-image-captioning-large"
Managers == {"M1", "M2"}
Devices == {"cuda", "cpu"}
NoInstance == "none"
NoManager == "none"

\* The instances the application constructs: the manager the coordinator
\* and the analysis agent share, the image agent, the analysis agent, the
\* UI agent.  "M2" is a manager of another session: never registered here.
AnalysisModelAgent == "M1"

RequiredAgentsNoUi == <<"model_management", "image_processing", "analysis">>

required_agents == <<"model_management", "image_processing", "analysis", "ui">>

AgentNames == {"model_management", "image_processing", "analysis", "ui", "test_agent"}

\* register_agent inputs: the bindings of multi_agent_app.py and
\* test_multi_agent.py, and one binding of a component without
\* preprocess_image under 'image_processing'.
Registrations ==
    { <<"model_management", "M1">>, <<"image_processing", "IMG">>,
      <<"analysis", "ANA">>, <<"ui", "UI">>,
      <<"test_agent", "IMG">>, <<"image_processing", "UI">> }

\* register_agent accepts any object.  "BAD" is a component whose
\* get_model_status raises; "DUAL" is a component with both a
\* get_model_status, reporting is_loaded True, and a get_statistics,
\* returning the 'message' dict.  The health check is run over registries
\* that may hold them.
HealthRegistrations ==
    Registrations \cup { <<"test_agent", "BAD">>, <<"test_agent", "DUAL">> }

\* ---------------------------------------------------------- resources
NoRes == [id |-> 0, key |-> <<>>]
Absent == [present |-> FALSE, res |-> NoRes, err |-> "none"]

ProcessorKey(model_id) == <<"_load_processor_cached", model_id>>
ModelKey(model_id, device) == <<"_load_model_cached", model_id, device>>

CacheKeys == {ProcessorKey(ModelId)} \cup {ModelKey(ModelId, d) : d \in Devices}

VARIABLES
    agents,            \* CoordinatorAgent.agents: name -> instance
    system_status,     \* CoordinatorAgent.system_status
    mgr,               \* per ModelManagementAgent: model, processor, device, is_loaded
    cache,             \* st.cache_resource: key -> memoized return value
    lock,              \* st.cache_resource: key -> thread computing the value (0: none)
    next_id,           \* identity of the next object a factory constructs
    analysis_history,  \* AnalysisAgent.analysis_history
    cuda,              \* torch.cuda.is_available()
    store_ok,          \* whether from_pretrained can currently obtain the artifact
    pc,                \* per thread: position in the handler it runs
    frame,             \* per thread: the handler's locals and what it observed
    invocations,       \* process_image_analysis calls since construction / cleanup_system
    factory_runs       \* per key: factory executions since the cache was last cleared

vars == <<agents, system_status, mgr, cache, lock, next_id, analysis_history,
          cuda, store_ok, pc, frame, invocations, factory_runs>>

NewManager == [model |-> NoRes, processor |-> NoRes, device |-> "none", is_loaded |-> FALSE]

NoResult == [kind |-> "none", success |-> FALSE, error |-> "none", meta |-> 0, hist |-> 0]

\* What get_statistics returns: the 'message' dict, the statistics dict, or
\* (kind "raise") an exception leaving the call.
NoStats ==
    [kind |-> "none", total_analyses |-> 0, successful_analyses |-> 0,
     failed_analyses |-> 0]

\* What run_health_check returns.  An entry of issues or warnings, the text
\* f'{agent_name}: {", ".join(issues)}', is the pair of its two parts; the
\* two lists are kept as sets.  Names not registered have status "absent".
NoHealth ==
    [overall_health |-> "none", issues |-> {}, warnings |-> {},
     agent_health |-> [a \in AgentNames |-> [status |-> "absent", issues |-> <<>>]]]

\* What get_system_status returns (kind "raise": an exception leaves the
\* call).  An entry of agent_statuses is the dict of get_model_status, the
\* dict of get_statistics or {'status': 'active'}, reduced to its kind and
\* to is_loaded / total_analyses.
NoAgentStatus == [kind |-> "absent", is_loaded |-> FALSE, total_analyses |-> 0]

NoStatus ==
    [kind |-> "none", system_initialized |-> FALSE, total_operations |-> 0,
     last_activity |-> 0, registered_agents |-> {}, agent_count |-> 0,
     agent_statuses |-> [a \in AgentNames |-> NoAgentStatus]]

\* A PIL image, reduced to what preprocess_image looks at: its mode and
\* whether max(image.size) exceeds 1024.
NoImage == [mode |-> "none", large |-> FALSE]

\* What get_model_status returns (model_id is the one constant ModelId).
NoModelStatus ==
    [is_loaded |-> FALSE, device |-> "none", has_model |-> FALSE,
     has_processor |-> FALSE]

NoFrame ==
    [ mgr |-> NoManager, via |-> "none", tmp |-> 0, result |-> NoResult,
      prompts |-> 0, results |-> <<>>, picked |-> 0,
      limit |-> 0, history |-> <<>>, stats |-> NoStats, health |-> NoHealth,
      status |-> NoStatus, cancelled |-> FALSE,
      filename |-> <<>>, valid |-> FALSE,
      image |-> NoImage, processed |-> NoImage, analyzed |-> NoImage,
      model_status |-> NoModelStatus, agent |-> NoInstance,
      ret |-> "none", missing |-> <<>>, im_ret |-> "none",
      pre_called |-> FALSE, exec_called |-> FALSE, mgr_called |-> FALSE,
      status0 |-> [initialized |-> FALSE, last_activity |-> 0, total_operations |-> 0],
      hist0 |-> <<>>, mgr0 |-> [m \in Managers |-> NewManager],
      down |-> FALSE, miss |-> {}, got |-> {} ]

Init ==
    /\ agents = [a \in AgentNames |-> NoInstance]
    /\ system_status = [initialized |-> FALSE, last_activity |-> 0, total_operations |-> 0]
    /\ mgr = [m \in Managers |-> NewManager]
    /\ cache = [k \in CacheKeys |-> Absent]
    /\ lock = [k \in CacheKeys |-> 0]
    /\ next_id = 1
    /\ analysis_history = <<>>
    /\ cuda \in BOOLEAN
    /\ store_ok \in BOOLEAN
    /\ pc = [t \in Threads |-> "idle"]
    /\ frame = [t \in Threads |-> NoFrame]
    /\ invocations = 0
    /\ factory_runs = [k \in CacheKeys |-> 0]

Quiet == \A t \in Threads : pc[t] = "idle"

\* A call may start: always when the thread is idle (conc), or only when no
\* other call is in flight (serialized).
MayStart(t, conc) == pc[t] = "idle" /\ (conc \/ Quiet)

\* time.strftime('%Y-%m-%d %H:%M:%S'): the clock never runs backwards.
Now == {tm \in Times : tm >= system_status.last_activity}

\* ------------------------------------------------ CoordinatorAgent
register_agent_replacing(agent_name, agent_instance) ==
    /\ Quiet
    /\ agents' = [a \in AgentNames |->
                    IF a = agent_name THEN agent_instance ELSE NoInstance]
    /\ UNCHANGED <<system_status, mgr, cache, lock, next_id, analysis_history,
                   cuda, store_ok, pc, frame, invocations, factory_runs>>

\* register_agent, lines 16-19.
register_agent(agent_name, agent_instance) ==
    /\ Quiet
    /\ agents' = [agents EXCEPT ![agent_name] = agent_instance]
    /\ UNCHANGED <<system_status, mgr, cache, lock, next_id, analysis_history,
                   cuda, store_ok, pc, frame, invocations, factory_runs>>

\* get_agent, lines 21-23: self.agents.get(agent_name), None when absent.
get_agent(agent_name) == agents[agent_name]

\* get_system_status, line 122: the keys of self.agents (as a set).
registered_agents == {a \in AgentNames : agents[a] # NoInstance}

\* get_system_status, line 123.
agent_count == Cardinality(registered_agents)

\* get_device_info, lines 17-29.
get_device_info == IF cuda THEN "cuda" ELSE "cpu"

MissingAgentsAllRequired ==
    IF \E i \in 1..Len(required_agents) : agents[required_agents[i]] = NoInstance
      THEN required_agents ELSE <<>>

\* initialize_system, lines 31-32.
missing_agents == SelectSeq(required_agents, LAMBDA a : agents[a] = NoInstance)

EntryFrame ==
    [NoFrame EXCEPT !.status0 = system_status, !.hist0 = analysis_history,
                    !.mgr0 = mgr]

CallGetAgent(t, agent_name, conc) ==
    /\ MayStart(t, conc)
    /\ frame' = [frame EXCEPT ![t] =
                    [EntryFrame EXCEPT !.agent = get_agent(agent_name)]]
    /\ pc' = [pc EXCEPT ![t] = "ga_done"]
    /\ UNCHANGED <<agents, system_status, mgr, cache, lock, next_id,
                   analysis_history, cuda, store_ok, invocations, factory_runs>>

\* initialize_system, lines 30-40: the required-agents check, then the call
\* of the registered manager's initialize_model (whose first statement,
\* line 79, sets the manager's device).
CallInitializeSystem(t, conc) ==
    /\ MayStart(t, conc)
    /\ IF missing_agents # <<>>
         THEN /\ frame' = [frame EXCEPT ![t] =
                             [EntryFrame EXCEPT !.missing = missing_agents,
                                                !.ret = "False"]]
              /\ pc' = [pc EXCEPT ![t] = "is_done"]
              /\ UNCHANGED mgr
         ELSE /\ frame' = [frame EXCEPT ![t] =
                             [EntryFrame EXCEPT !.mgr = agents["model_management"],
                                                !.via = "coordinator",
                                                !.mgr_called = TRUE,
                                                !.down = ~store_ok]]
              /\ mgr' = [mgr EXCEPT ![agents["model_management"]].device =
                                        get_device_info]
              /\ pc' = [pc EXCEPT ![t] = "lp_lookup"]
    /\ UNCHANGED <<agents, system_status, cache, lock, next_id,
                   analysis_history, cuda, store_ok, invocations, factory_runs>>

\* initialize_system, lines 42-50.
InitializeSystemFinish(t) ==
    /\ pc[t] = "is_post"
    /\ IF frame[t].im_ret # "ok"
         THEN /\ frame' = [frame EXCEPT ![t].ret = "False"]
              /\ UNCHANGED system_status
         ELSE /\ \E tm \in Now :
                    system_status' = [system_status EXCEPT !.initialized = TRUE,
                                                           !.last_activity = tm]
              /\ frame' = [frame EXCEPT ![t].ret = "True"]
    /\ pc' = [pc EXCEPT ![t] = "is_done"]
    /\ UNCHANGED <<agents, mgr, cache, lock, next_id, analysis_history,
                   cuda, store_ok, invocations, factory_runs>>

\* ------------------------------------------- ModelManagementAgent
\* initialize_model called directly on manager m; line 79.
CallInitializeModel(t, m, conc) ==
    /\ MayStart(t, conc)
    /\ mgr' = [mgr EXCEPT ![m].device = get_device_info]
    /\ pc' = [pc EXCEPT ![t] = "lp_lookup"]
    /\ frame' = [frame EXCEPT ![t] = [NoFrame EXCEPT !.mgr = m, !.via = "direct"]]
    /\ UNCHANGED <<agents, system_status, cache, lock, next_id,
                   analysis_history, cuda, store_ok, invocations, factory_runs>>

\* The key of the cached loader thread t is calling.
LoaderOf(t) == IF pc[t] \in {"lp_lookup", "lp_lock", "lp_build"} THEN "processor" ELSE "model"

KeyAt(t) ==
    IF LoaderOf(t) = "processor"
      THEN ProcessorKey(ModelId)
      ELSE ModelKey(ModelId, mgr[frame[t].mgr].device)

\* ------------------------------------------------ st.cache_resource
CacheNeverHits(k) == FALSE

CacheHit(k) == cache[k].present

LockAlwaysFree(k) == TRUE

LockFree(k) == lock[k] = 0

\* _load_processor_cached / _load_model_cached bodies: from_pretrained
\* succeeds with a new object or raises, and the body returns (obj, None) or
\* (None, str(e)).
FactoryResult(k) ==
    IF store_ok
      THEN [present |-> TRUE, res |-> [id |-> next_id, key |-> k], err |-> "none"]
      ELSE [present |-> TRUE, res |-> NoRes, err |-> "error"]

\* What the caller of the cached loader does with the returned pair:
\* load_processor / load_model and initialize_model lines 82-92.
AfterInit(t) == IF frame[t].via = "coordinator" THEN "is_post" ELSE "im_done"

DeliverLoadedEarly(t, k, entry) ==
    LET m == frame[t].mgr
        f == [frame[t] EXCEPT !.got = @ \cup {<<k, entry>>}]
    IN  IF LoaderOf(t) = "processor"
          THEN /\ mgr' = [mgr EXCEPT ![m].processor = entry.res,
                                      ![m].is_loaded = (entry.res # NoRes) \/ @]
               /\ IF entry.res = NoRes
                    THEN /\ frame' = [frame EXCEPT ![t] =
                                        [f EXCEPT !.im_ret = "Failed to load processor"]]
                         /\ pc' = [pc EXCEPT ![t] = AfterInit(t)]
                    ELSE /\ frame' = [frame EXCEPT ![t] = f]
                         /\ pc' = [pc EXCEPT ![t] = "lm_lookup"]
          ELSE /\ IF entry.res = NoRes
                    THEN /\ mgr' = [mgr EXCEPT ![m].model = entry.res]
                         /\ frame' = [frame EXCEPT ![t] =
                                        [f EXCEPT !.im_ret = "Failed to load model"]]
                    ELSE /\ mgr' = [mgr EXCEPT ![m].model = entry.res,
                                               ![m].is_loaded = TRUE]
                         /\ frame' = [frame EXCEPT ![t] = [f EXCEPT !.im_ret = "ok"]]
               /\ pc' = [pc EXCEPT ![t] = AfterInit(t)]

Deliver(t, k, entry) ==
    LET m == frame[t].mgr
        f == [frame[t] EXCEPT !.got = @ \cup {<<k, entry>>}]
    IN  IF LoaderOf(t) = "processor"
          THEN /\ mgr' = [mgr EXCEPT ![m].processor = entry.res]
               /\ IF entry.res = NoRes
                    THEN /\ frame' = [frame EXCEPT ![t] =
                                        [f EXCEPT !.im_ret = "Failed to load processor"]]
                         /\ pc' = [pc EXCEPT ![t] = AfterInit(t)]
                    ELSE /\ frame' = [frame EXCEPT ![t] = f]
                         /\ pc' = [pc EXCEPT ![t] = "lm_lookup"]
          ELSE /\ IF entry.res = NoRes
                    THEN /\ mgr' = [mgr EXCEPT ![m].model = entry.res]
                         /\ frame' = [frame EXCEPT ![t] =
                                        [f EXCEPT !.im_ret = "Failed to load model"]]
                    ELSE /\ mgr' = [mgr EXCEPT ![m].model = entry.res,
                                               ![m].is_loaded = TRUE]
                         /\ frame' = [frame EXCEPT ![t] = [f EXCEPT !.im_ret = "ok"]]
               /\ pc' = [pc EXCEPT ![t] = AfterInit(t)]

\* The cached function is called: a hit returns the memoized value.
CacheLookup(t) ==
    /\ pc[t] \in {"lp_lookup", "lm_lookup"}
    /\ LET k == KeyAt(t)
       IN  IF CacheHit(k)
             THEN Deliver(t, k, cache[k])
             ELSE /\ pc' = [pc EXCEPT ![t] = IF pc[t] = "lp_lookup" THEN "lp_lock"
                                                                     ELSE "lm_lock"]
                  /\ frame' = [frame EXCEPT ![t].miss = @ \cup {k}]
                  /\ UNCHANGED mgr
    /\ UNCHANGED <<agents, system_status, cache, lock, next_id, analysis_history,
                   cuda, store_ok, invocations, factory_runs>>

\* After a miss the caller takes the key's compute lock and looks again.
CacheAcquire(t) ==
    /\ pc[t] \in {"lp_lock", "lm_lock"}
    /\ LET k == KeyAt(t)
       IN  /\ LockFree(k)
           /\ IF CacheHit(k)
                THEN /\ Deliver(t, k, cache[k])
                     /\ UNCHANGED lock
                ELSE /\ lock' = [lock EXCEPT ![k] = t]
                     /\ pc' = [pc EXCEPT ![t] = IF pc[t] = "lp_lock" THEN "lp_build"
                                                                      ELSE "lm_build"]
                     /\ UNCHANGED <<mgr, frame>>
    /\ UNCHANGED <<agents, system_status, cache, next_id, analysis_history,
                   cuda, store_ok, invocations, factory_runs>>

\* The lock holder runs the function body, memoizes what it returned and
\* releases the lock.
CacheBuild(t) ==
    /\ pc[t] \in {"lp_build", "lm_build"}
    /\ next_id <= MaxLoads
    /\ LET k == KeyAt(t)
           entry == FactoryResult(k)
       IN  /\ cache' = [cache EXCEPT ![k] = entry]
           /\ lock' = [lock EXCEPT ![k] = 0]
           /\ next_id' = IF entry.res = NoRes THEN next_id ELSE next_id + 1
           /\ factory_runs' = [factory_runs EXCEPT ![k] = @ + 1]
           /\ Deliver(t, k, entry)
    /\ UNCHANGED <<agents, system_status, analysis_history, cuda, store_ok,
                   invocations>>

\* get_model_status, lines 97-105.
get_model_status(m) ==
    [is_loaded |-> mgr[m].is_loaded, device |-> mgr[m].device,
     has_model |-> mgr[m].model # NoRes,
     has_processor |-> mgr[m].processor # NoRes]

CallGetModelStatus(t, m, conc) ==
    /\ MayStart(t, conc)
    /\ frame' = [frame EXCEPT ![t] =
                    [EntryFrame EXCEPT !.mgr = m,
                                       !.model_status = get_model_status(m)]]
    /\ pc' = [pc EXCEPT ![t] = "ms_done"]
    /\ UNCHANGED <<agents, system_status, mgr, cache, lock, next_id,
                   analysis_history, cuda, store_ok, invocations, factory_runs>>

CleanedManagerToggling(m) ==
    [mgr[m] EXCEPT !.model = NoRes, !.processor = NoRes, !.is_loaded = ~@]

\* cleanup_resources, lines 107-131 (st.cache_resource.clear() drops every
\* memoized value of every cached function).
CleanedManager(m) ==
    [mgr[m] EXCEPT !.model = NoRes, !.processor = NoRes, !.is_loaded = FALSE]

cleanup_resources(m) ==
    /\ Quiet
    /\ mgr' = [mgr EXCEPT ![m] = CleanedManager(m)]
    /\ cache' = [k \in CacheKeys |-> Absent]
    /\ factory_runs' = [k \in CacheKeys |-> 0]
    /\ UNCHANGED <<agents, system_status, lock, next_id, analysis_history,
                   cuda, store_ok, pc, frame, invocations>>

\* --------------------------------------------------- AnalysisAgent
analyze_image_unchecked(generated) ==
    LET ma == mgr[AnalysisModelAgent]
    IN  IF generated /\ ma.processor # NoRes /\ ma.model # NoRes
          THEN [kind |-> "record", success |-> TRUE, error |-> "none",
                meta |-> 0, hist |-> Len(analysis_history) + 1]
          ELSE [kind |-> "record", success |-> FALSE, error |-> "Analysis failed",
                meta |-> 0, hist |-> 0]

\* analyze_image, lines 17-82, against the manager the agent was built with.
\* generated: whether processor(...), model.generate(...) and decode(...)
\* ran without raising.
analyze_image(generated) ==
    LET ma == mgr[AnalysisModelAgent]
    IN  IF ~ma.is_loaded
          THEN [kind |-> "record", success |-> FALSE, error |-> "Model not loaded",
                meta |-> 0, hist |-> 0]
          ELSE IF generated /\ ma.processor # NoRes /\ ma.model # NoRes
                 THEN [kind |-> "record", success |-> TRUE, error |-> "none",
                       meta |-> 0, hist |-> Len(analysis_history) + 1]
                 ELSE [kind |-> "record", success |-> FALSE, error |-> "Analysis failed",
                       meta |-> 0, hist |-> 0]

\* The history after analyze_image returned r (line 72: only a successful
\* result is stored).
HistoryAfter(r) ==
    IF r.hist # 0
      THEN Append(analysis_history, [success |-> r.success, meta |-> r.meta])
      ELSE analysis_history

\* ------------------------------------ ImageProcessingAgent.preprocess_image
\* The images a caller may pass.
Images == [mode : {"RGB", "RGBA"}, large : BOOLEAN]

\* The image load_image_from_file / load_image_from_url hand to the UI
\* (already converted to RGB), here one that is larger than 1024.
UploadedImage == [mode |-> "RGB", large |-> TRUE]

\* preprocess_image, lines 85-104: convert to RGB, resize to at most 1024.
preprocess_image(image) ==
    LET converted == IF image.mode # "RGB" THEN [image EXCEPT !.mode = "RGB"]
                                           ELSE image
    IN  IF converted.large THEN [converted EXCEPT !.large = FALSE] ELSE converted

\* ------------------------------- CoordinatorAgent.process_image_analysis
\* Line 70, self.system_status['total_operations'] += 1: the read ...
CallProcessImageAnalysisWith(t, image, conc) ==
    /\ MayStart(t, conc)
    /\ invocations < MaxOps
    /\ invocations' = invocations + 1
    /\ pc' = [pc EXCEPT ![t] = "rw_store"]
    /\ frame' = [frame EXCEPT ![t] =
                    [EntryFrame EXCEPT !.tmp = system_status.total_operations,
                                       !.image = image]]
    /\ UNCHANGED <<agents, system_status, mgr, cache, lock, next_id,
                   analysis_history, cuda, store_ok, factory_runs>>

\* The call as the application makes it, on an uploaded image.
CallProcessImageAnalysis(t, conc) ==
    CallProcessImageAnalysisWith(t, UploadedImage, conc)

\* ... and the write of the incremented value.
IncrementStoreUnlessUninitialized(t) ==
    /\ pc[t] = "rw_store"
    /\ system_status' = [system_status EXCEPT !.total_operations =
                            IF system_status.initialized THEN frame[t].tmp + 1 ELSE @]
    /\ pc' = [pc EXCEPT ![t] = "rw_check"]
    /\ UNCHANGED <<agents, mgr, cache, lock, next_id, analysis_history,
                   cuda, store_ok, frame, invocations, factory_runs>>

IncrementStoreSkipped(t) ==
    /\ pc[t] = "rw_store"
    /\ pc' = [pc EXCEPT ![t] = "rw_check"]
    /\ UNCHANGED <<agents, system_status, mgr, cache, lock, next_id,
                   analysis_history, cuda, store_ok, frame, invocations,
                   factory_runs>>

IncrementStore(t) ==
    /\ pc[t] = "rw_store"
    /\ system_status' = [system_status EXCEPT !.total_operations = frame[t].tmp + 1]
    /\ pc' = [pc EXCEPT ![t] = "rw_check"]
    /\ UNCHANGED <<agents, mgr, cache, lock, next_id, analysis_history,
                   cuda, store_ok, frame, invocations, factory_runs>>

FailureAsSuccess(msg) ==
    [kind |-> "failure", success |-> TRUE, error |-> msg, meta |-> 0, hist |-> 0]

\* The dict process_image_analysis builds at lines 75-79 and 110-114.
Failure(msg) ==
    [kind |-> "failure", success |-> FALSE, error |-> msg, meta |-> 0, hist |-> 0]

\* Lines 74-79 with the activity stamp of line 94 moved before the check.
ValidateStatusStamping(t) ==
    /\ pc[t] = "rw_check"
    /\ \E tm \in Now : system_status' = [system_status EXCEPT !.last_activity = tm]
    /\ IF ~system_status.initialized
         THEN /\ frame' = [frame EXCEPT ![t].result = Failure("System not initialized")]
              /\ pc' = [pc EXCEPT ![t] = "rw_done"]
         ELSE /\ pc' = [pc EXCEPT ![t] = "rw_pre"]
              /\ UNCHANGED frame
    /\ UNCHANGED <<agents, mgr, cache, lock, next_id, analysis_history,
                   cuda, store_ok, invocations, factory_runs>>

\* Lines 74-79.
ValidateStatus(t) ==
    /\ pc[t] = "rw_check"
    /\ IF ~system_status.initialized
         THEN /\ frame' = [frame EXCEPT ![t].result = Failure("System not initialized")]
              /\ pc' = [pc EXCEPT ![t] = "rw_done"]
         ELSE /\ pc' = [pc EXCEPT ![t] = "rw_pre"]
              /\ UNCHANGED frame
    /\ UNCHANGED <<agents, system_status, mgr, cache, lock, next_id,
                   analysis_history, cuda, store_ok, invocations, factory_runs>>

\* Lines 82-83.  A missing binding (KeyError) or a component without
\* preprocess_image (AttributeError) reaches the except clause, lines 109-114.
Preprocess(t) ==
    /\ pc[t] = "rw_pre"
    /\ IF agents["image_processing"] = "IMG"
         THEN /\ frame' = [frame EXCEPT
                                ![t].pre_called = TRUE,
                                ![t].processed = preprocess_image(frame[t].image)]
              /\ pc' = [pc EXCEPT ![t] = "rw_analyze"]
         ELSE /\ frame' = [frame EXCEPT ![t].result =
                                            Failure("Workflow coordination failed")]
              /\ pc' = [pc EXCEPT ![t] = "rw_done"]
    /\ UNCHANGED <<agents, system_status, mgr, cache, lock, next_id,
                   analysis_history, cuda, store_ok, invocations, factory_runs>>

ExecutorInputUnprocessed(t) == frame[t].image

\* Lines 87-88: the image analyze_image is called with.
ExecutorInput(t) == frame[t].processed

\* Lines 86-91.
Analyze(t) ==
    /\ pc[t] = "rw_analyze"
    /\ IF agents["analysis"] = "ANA"
         THEN \E generated \in BOOLEAN :
                LET r == analyze_image(generated)
                IN  /\ analysis_history' = HistoryAfter(r)
                    /\ frame' = [frame EXCEPT ![t].exec_called = TRUE,
                                              ![t].analyzed = ExecutorInput(t),
                                              ![t].result = r]
                    /\ pc' = [pc EXCEPT ![t] = "rw_stamp"]
         ELSE /\ frame' = [frame EXCEPT ![t].result =
                                            Failure("Workflow coordination failed")]
              /\ pc' = [pc EXCEPT ![t] = "rw_done"]
              /\ UNCHANGED analysis_history
    /\ UNCHANGED <<agents, system_status, mgr, cache, lock, next_id,
                   cuda, store_ok, invocations, factory_runs>>

\* Lines 94-107.  analysis_result is the very dict analyze_image stored in
\* the history, so the metadata lands in the stored record too.
AttachMetadata(t) ==
    /\ pc[t] = "rw_stamp"
    /\ \E tm \in Now :
         system_status' = [system_status EXCEPT !.last_activity = tm]
    /\ LET n == system_status.total_operations
           h == frame[t].result.hist
       IN  /\ frame' = [frame EXCEPT ![t].result.meta = n]
           /\ analysis_history' =
                IF h # 0 /\ h <= Len(analysis_history)
                  THEN [analysis_history EXCEPT ![h].meta = n]
                  ELSE analysis_history
    /\ pc' = [pc EXCEPT ![t] = "rw_done"]
    /\ UNCHANGED <<agents, mgr, cache, lock, next_id, cuda, store_ok,
                   invocations, factory_runs>>

CleanedStatusWithoutActivity ==
    [initialized |-> FALSE, last_activity |-> 0, total_operations |-> 0]

CleanedStatusKeepingCount ==
    [system_status EXCEPT !.initialized = FALSE]

\* cleanup_system, lines 202-203.
CleanedStatus ==
    [system_status EXCEPT !.initialized = FALSE, !.total_operations = 0]

\* cleanup_system, lines 188-208.
cleanup_system ==
    /\ Quiet
    /\ IF agents["model_management"] # NoInstance
         THEN /\ mgr' = [mgr EXCEPT ![agents["model_management"]] =
                                       CleanedManager(agents["model_management"])]
              /\ cache' = [k \in CacheKeys |-> Absent]
              /\ factory_runs' = [k \in CacheKeys |-> 0]
         ELSE UNCHANGED <<mgr, cache, factory_runs>>
    /\ analysis_history' =
         IF agents["analysis"] # NoInstance THEN <<>> ELSE analysis_history
    /\ system_status' = CleanedStatus
    /\ invocations' = 0
    /\ UNCHANGED <<agents, lock, next_id, cuda, store_ok, pc, frame>>

\* --------------------------------- AnalysisAgent, called by the UI
\* analyze_image called directly (ui_agent.py line 202).
CallAnalyzeImage(t, conc) ==
    /\ MayStart(t, conc)
    /\ Len(analysis_history) < MaxHist
    /\ \E generated \in BOOLEAN :
         LET r == analyze_image(generated)
         IN  /\ analysis_history' = HistoryAfter(r)
             /\ frame' = [frame EXCEPT ![t] = [EntryFrame EXCEPT !.result = r]]
    /\ pc' = [pc EXCEPT ![t] = "ai_done"]
    /\ UNCHANGED <<agents, system_status, mgr, cache, lock, next_id,
                   cuda, store_ok, invocations, factory_runs>>

\* analyze_image step by step, for callers that run concurrently: lines
\* 17-34, up to the start of the inference ...
BeginAnalyzeImage(t, conc) ==
    /\ MayStart(t, conc)
    /\ Len(analysis_history) + Cardinality({u \in Threads : pc[u] = "ai_infer"})
          < MaxHist
    /\ IF ~mgr[AnalysisModelAgent].is_loaded
         THEN /\ frame' = [frame EXCEPT ![t] =
                             [EntryFrame EXCEPT !.result = analyze_image(FALSE)]]
              /\ pc' = [pc EXCEPT ![t] = "ai_done"]
         ELSE /\ frame' = [frame EXCEPT ![t] = EntryFrame]
              /\ pc' = [pc EXCEPT ![t] = "ai_infer"]
    /\ UNCHANGED <<agents, system_status, mgr, cache, lock, next_id,
                   analysis_history, cuda, store_ok, invocations, factory_runs>>

\* ... the caller stops waiting for the call while model.generate runs
\* (lines 37-45 take no timeout and poll no cancellation flag) ...
CancelInference(t) ==
    /\ pc[t] = "ai_infer"
    /\ ~frame[t].cancelled
    /\ frame' = [frame EXCEPT ![t].cancelled = TRUE]
    /\ UNCHANGED <<agents, system_status, mgr, cache, lock, next_id,
                   analysis_history, cuda, store_ok, pc, invocations,
                   factory_runs>>

\* ... and lines 37-82, from the return of model.generate (or the
\* exception it raised) to the return of the call.
FinishAnalyzeImage(t) ==
    /\ pc[t] = "ai_infer"
    /\ \E generated \in BOOLEAN :
         LET r == analyze_image(generated)
         IN  /\ analysis_history' = HistoryAfter(r)
             /\ frame' = [frame EXCEPT ![t].result = r]
    /\ pc' = [pc EXCEPT ![t] = "ai_done"]
    /\ UNCHANGED <<agents, system_status, mgr, cache, lock, next_id,
                   cuda, store_ok, invocations, factory_runs>>

\* analyze_with_multiple_prompts, lines 98-99.  prompts: the number of
\* prompts in the list; a prompt is identified by its position.
CallAnalyzeWithMultiplePrompts(t, prompts, conc) ==
    /\ MayStart(t, conc)
    /\ Len(analysis_history) + prompts <= MaxHist
    /\ frame' = [frame EXCEPT ![t] = [EntryFrame EXCEPT !.prompts = prompts]]
    /\ pc' = [pc EXCEPT ![t] = "mp_loop"]
    /\ UNCHANGED <<agents, system_status, mgr, cache, lock, next_id,
                   analysis_history, cuda, store_ok, invocations, factory_runs>>

\* Lines 112-114: the position of the first successful result (0: none).
FirstSuccessful(results) ==
    LET S == {i \in 1..Len(results) : results[i].success}
    IN  IF S = {} THEN 0 ELSE CHOOSE i \in S : \A j \in S : i <= j

PickedFirstResult(results) ==
    IF FirstSuccessful(results) # 0
      THEN FirstSuccessful(results)
      ELSE IF results # <<>> THEN 1 ELSE 0

\* Lines 112-116: the position in results of the object returned (0: none
\* of them).
Picked(results) ==
    IF FirstSuccessful(results) # 0
      THEN FirstSuccessful(results)
      ELSE Len(results)

NoPromptsResultOfLastKind ==
    [kind |-> "record", success |-> FALSE, error |-> "Analysis failed",
     meta |-> 0, hist |-> 0]

\* Lines 116-121: the dict returned when results is empty.
NoPromptsResult ==
    [kind |-> "failure", success |-> FALSE, error |-> "All analysis attempts failed",
     meta |-> 0, hist |-> 0]

\* One iteration of the loop of lines 100-109, or, after the last prompt,
\* the choice of the returned result, lines 112-121.
MultiPromptStep(t) ==
    /\ pc[t] = "mp_loop"
    /\ IF Len(frame[t].results) < frame[t].prompts
         THEN \E generated \in BOOLEAN :
                LET r == analyze_image(generated)
                IN  /\ analysis_history' = HistoryAfter(r)
                    /\ frame' = [frame EXCEPT ![t].results = Append(@, r)]
                    /\ UNCHANGED pc
         ELSE LET results == frame[t].results
                  i == Picked(results)
              IN  /\ frame' = [frame EXCEPT
                                 ![t].picked = i,
                                 ![t].result = IF i # 0 THEN results[i]
                                                        ELSE NoPromptsResult]
                  /\ pc' = [pc EXCEPT ![t] = "mp_done"]
                  /\ UNCHANGED analysis_history
    /\ UNCHANGED <<agents, system_status, mgr, cache, lock, next_id,
                   cuda, store_ok, invocations, factory_runs>>

\* s[start:] of a Python list.
SliceFrom(s, start) ==
    LET n == Len(s)
        from == IF start < 0
                  THEN (IF start + n < 0 THEN 0 ELSE start + n)
                  ELSE (IF start > n THEN n ELSE start)
    IN  SubSeq(s, from + 1, n)

\* get_analysis_history, line 125.
get_analysis_history(limit) ==
    IF analysis_history # <<>> THEN SliceFrom(analysis_history, 0 - limit) ELSE <<>>

CallGetAnalysisHistory(t, limit, conc) ==
    /\ MayStart(t, conc)
    /\ frame' = [frame EXCEPT ![t] =
                    [EntryFrame EXCEPT !.limit = limit,
                                       !.history = get_analysis_history(limit)]]
    /\ pc' = [pc EXCEPT ![t] = "gh_done"]
    /\ UNCHANGED <<agents, system_status, mgr, cache, lock, next_id,
                   analysis_history, cuda, store_ok, invocations, factory_runs>>

\* clear_history, lines 127-130.
clear_history(conc) ==
    /\ conc \/ Quiet
    /\ analysis_history # <<>>
    /\ analysis_history' = <<>>
    /\ UNCHANGED <<agents, system_status, mgr, cache, lock, next_id,
                   cuda, store_ok, pc, frame, invocations, factory_runs>>

HistoryNeverEmpty == FALSE

\* get_statistics, line 134: not self.analysis_history.
HistoryEmpty == analysis_history = <<>>

\* get_statistics, lines 134-135.
CallGetStatistics(t, conc) ==
    /\ MayStart(t, conc)
    /\ IF HistoryEmpty
         THEN /\ frame' = [frame EXCEPT ![t] =
                             [EntryFrame EXCEPT !.stats.kind = "message"]]
              /\ pc' = [pc EXCEPT ![t] = "st_done"]
         ELSE /\ frame' = [frame EXCEPT ![t] = EntryFrame]
              /\ pc' = [pc EXCEPT ![t] = "st_succ"]
    /\ UNCHANGED <<agents, system_status, mgr, cache, lock, next_id,
                   analysis_history, cuda, store_ok, invocations, factory_runs>>

Count(s, wanted) == Cardinality({i \in 1..Len(s) : s[i].success = wanted})

\* get_statistics, one statement per step: line 137, line 138, and the dict
\* of lines 143-150, whose line 147 divides by len(self.analysis_history).
StatisticsStep(t) ==
    /\ \/ /\ pc[t] = "st_succ"
          /\ frame' = [frame EXCEPT ![t].stats.successful_analyses =
                                       Count(analysis_history, TRUE)]
          /\ pc' = [pc EXCEPT ![t] = "st_fail"]
       \/ /\ pc[t] = "st_fail"
          /\ frame' = [frame EXCEPT ![t].stats.failed_analyses =
                                       Count(analysis_history, FALSE)]
          /\ pc' = [pc EXCEPT ![t] = "st_build"]
       \/ /\ pc[t] = "st_build"
          /\ frame' = [frame EXCEPT
                         ![t].stats.total_analyses = Len(analysis_history),
                         ![t].stats.kind = IF Len(analysis_history) = 0
                                             THEN "raise" ELSE "stats"]
          /\ pc' = [pc EXCEPT ![t] = "st_done"]
    /\ UNCHANGED <<agents, system_status, mgr, cache, lock, next_id,
                   analysis_history, cuda, store_ok, invocations, factory_runs>>

\* --------------------------------------------- ImageProcessingAgent
\* A filename is a string: a sequence of characters.  The characters the
\* filenames are drawn from.
Chars == {"p", "n", "g", "P", "."}

Filenames == UNION {[1..n -> Chars] : n \in 0..MaxName}

\* self.supported_formats, line 12.
supported_formats ==
    { <<"p", "n", "g">>, <<"j", "p", "g">>, <<"j", "p", "e", "g">>,
      <<"g", "i", "f">>, <<"b", "m", "p">> }

\* str.lower().
lower(s) == [i \in 1..Len(s) |-> IF s[i] = "P" THEN "p" ELSE s[i]]

\* s.split('.')[-1]: what follows the last '.', the whole of s when it has
\* none.
LastPart(s) ==
    LET dots == {i \in 1..Len(s) : s[i] = "."}
        last == IF dots = {} THEN 0 ELSE CHOOSE i \in dots : \A j \in dots : j <= i
    IN  SubSeq(s, last + 1, Len(s))

\* validate_image_format, lines 15-21.
validate_image_format(filename) ==
    IF filename = <<>> THEN FALSE ELSE LastPart(lower(filename)) \in supported_formats

CallValidateImageFormat(t, conc) ==
    /\ MayStart(t, conc)
    /\ \E filename \in Filenames :
         frame' = [frame EXCEPT ![t] =
                     [NoFrame EXCEPT !.filename = filename,
                                     !.valid = validate_image_format(filename)]]
    /\ pc' = [pc EXCEPT ![t] = "vf_done"]
    /\ UNCHANGED <<agents, system_status, mgr, cache, lock, next_id,
                   analysis_history, cuda, store_ok, invocations, factory_runs>>

\* ------------------------------- CoordinatorAgent.get_system_status
\* Lines 128-134 for one registered agent.
AgentStatus(agent_name) ==
    LET agent == agents[agent_name]
    IN  IF agent = NoInstance THEN NoAgentStatus
        ELSE IF agent \in Managers
          THEN [kind |-> "model_status", is_loaded |-> mgr[agent].is_loaded,
                total_analyses |-> 0]
        ELSE IF agent = "DUAL"
          THEN [kind |-> "model_status", is_loaded |-> TRUE, total_analyses |-> 0]
        ELSE IF agent = "ANA"
          THEN [kind |-> IF HistoryEmpty THEN "message" ELSE "statistics",
                is_loaded |-> FALSE, total_analyses |-> Len(analysis_history)]
        ELSE [kind |-> "active", is_loaded |-> FALSE, total_analyses |-> 0]

\* get_system_status, lines 116-138.  The loop of lines 128-134 has no
\* try: a get_model_status that raises ends the call.
get_system_status ==
    IF \E a \in AgentNames : agents[a] = "BAD"
      THEN [NoStatus EXCEPT !.kind = "raise"]
      ELSE [kind |-> "status",
            system_initialized |-> system_status.initialized,
            total_operations |-> system_status.total_operations,
            last_activity |-> system_status.last_activity,
            registered_agents |-> registered_agents,
            agent_count |-> agent_count,
            agent_statuses |-> [a \in AgentNames |-> AgentStatus(a)]]

CallGetSystemStatusStamping(t, conc) ==
    /\ MayStart(t, conc)
    /\ frame' = [frame EXCEPT ![t] = [EntryFrame EXCEPT !.status = get_system_status]]
    /\ system_status' = [system_status EXCEPT !.last_activity = MaxTime]
    /\ pc' = [pc EXCEPT ![t] = "gs_done"]
    /\ UNCHANGED <<agents, mgr, cache, lock, next_id,
                   analysis_history, cuda, store_ok, invocations, factory_runs>>

CallGetSystemStatus(t, conc) ==
    /\ MayStart(t, conc)
    /\ frame' = [frame EXCEPT ![t] = [EntryFrame EXCEPT !.status = get_system_status]]
    /\ pc' = [pc EXCEPT ![t] = "gs_done"]
    /\ UNCHANGED <<agents, system_status, mgr, cache, lock, next_id,
                   analysis_history, cuda, store_ok, invocations, factory_runs>>

\* ------------------------------- CoordinatorAgent.run_health_check
\* get_statistics with no other call in flight, lines 134-150: whether it
\* returns the 'message' dict.
StatisticsHasMessage == HistoryEmpty

AgentHealthSwallowing(agent_name) ==
    LET agent == agents[agent_name]
    IN  IF agent = NoInstance
          THEN [status |-> "absent", issues |-> <<>>]
          ELSE IF agent \in Managers /\ ~mgr[agent].is_loaded
            THEN [status |-> "warning", issues |-> <<"Model not loaded">>]
            ELSE IF agent = "ANA" /\ StatisticsHasMessage
                   THEN [status |-> "info",
                         issues |-> <<"No analysis history available">>]
                   ELSE [status |-> "healthy", issues |-> <<>>]

\* hasattr(agent, 'get_model_status'), lines 129 and 154.
has_get_model_status(agent) == agent \in Managers \cup {"BAD", "DUAL"}

\* hasattr(agent, 'get_statistics'), lines 131 and 162.
has_get_statistics(agent) == agent \in {"ANA", "DUAL"}

\* status.get('is_loaded', True), line 156, of a get_model_status that
\* returned.
StatusIsLoaded(agent) == IF agent \in Managers THEN mgr[agent].is_loaded ELSE TRUE

\* 'message' in stats, line 164.
MessageInStats(agent) == IF agent = "ANA" THEN StatisticsHasMessage ELSE TRUE

AgentHealthStatisticsFirst(agent_name) ==
    LET agent == agents[agent_name]
    IN  IF agent = NoInstance
          THEN [status |-> "absent", issues |-> <<>>]
        ELSE IF has_get_statistics(agent)
          THEN IF MessageInStats(agent)
                 THEN [status |-> "info",
                       issues |-> <<"No analysis history available">>]
                 ELSE [status |-> "healthy", issues |-> <<>>]
        ELSE IF has_get_model_status(agent)
          THEN IF agent = "BAD"
                 THEN [status |-> "error", issues |-> <<"Exception: probe failed">>]
               ELSE IF ~StatusIsLoaded(agent)
                 THEN [status |-> "warning", issues |-> <<"Model not loaded">>]
                 ELSE [status |-> "healthy", issues |-> <<>>]
        ELSE [status |-> "healthy", issues |-> <<>>]

\* Lines 150-175 for one registered agent: get_model_status when the agent
\* has it, else get_statistics when it has that, else neither; an exception
\* raised by the probe is caught at line 173.
AgentHealth(agent_name) ==
    LET agent == agents[agent_name]
    IN  IF agent = NoInstance
          THEN [status |-> "absent", issues |-> <<>>]
        ELSE IF has_get_model_status(agent)
          THEN IF agent = "BAD"
                 THEN [status |-> "error", issues |-> <<"Exception: probe failed">>]
               ELSE IF ~StatusIsLoaded(agent)
                 THEN [status |-> "warning", issues |-> <<"Model not loaded">>]
                 ELSE [status |-> "healthy", issues |-> <<>>]
        ELSE IF has_get_statistics(agent)
          THEN IF MessageInStats(agent)
                 THEN [status |-> "info",
                       issues |-> <<"No analysis history available">>]
                 ELSE [status |-> "healthy", issues |-> <<>>]
        ELSE [status |-> "healthy", issues |-> <<>>]

OverallHealthStrict(agent_health) ==
    IF \E a \in AgentNames : agent_health[a].status \in {"error", "warning"}
      THEN "unhealthy" ELSE "healthy"

\* Lines 143 and 180-181.
OverallHealth(agent_health) ==
    IF \E a \in AgentNames : agent_health[a].status = "error"
      THEN "unhealthy" ELSE "healthy"

\* Lines 182 and 184.
Entries(agent_health, status) ==
    {<<a, agent_health[a].issues>> :
        a \in {b \in AgentNames : agent_health[b].status = status}}

\* run_health_check, lines 142-186.
run_health_check ==
    LET agent_health == [a \in AgentNames |-> AgentHealth(a)]
    IN  [overall_health |-> OverallHealth(agent_health),
         issues |-> Entries(agent_health, "error"),
         warnings |-> Entries(agent_health, "warning"),
         agent_health |-> agent_health]

CallRunHealthCheck(t, conc) ==
    /\ MayStart(t, conc)
    /\ frame' = [frame EXCEPT ![t] = [EntryFrame EXCEPT !.health = run_health_check]]
    /\ pc' = [pc EXCEPT ![t] = "hc_done"]
    /\ UNCHANGED <<agents, system_status, mgr, cache, lock, next_id,
                   analysis_history, cuda, store_ok, invocations, factory_runs>>

\* ------------------------------------------------------ environment
\* The caller takes the returned value; the thread is free again.
Return(t) ==
    /\ pc[t] \in {"is_done", "im_done", "rw_done",
                 "ai_done", "mp_done", "gh_done", "st_done", "hc_done",
                 "gs_done", "vf_done", "ms_done", "ga_done"}
    /\ pc' = [pc EXCEPT ![t] = "idle"]
    /\ frame' = [frame EXCEPT ![t] = NoFrame]
    /\ UNCHANGED <<agents, system_status, mgr, cache, lock, next_id,
                   analysis_history, cuda, store_ok, invocations, factory_runs>>

\* The model store becomes reachable or unreachable.  A call in flight
\* remembers that the store was down during it.
StoreChange ==
    /\ store_ok' = ~store_ok
    /\ frame' = [t \in Threads |->
                   IF frame[t].via = "coordinator" /\ store_ok
                     THEN [frame[t] EXCEPT !.down = TRUE] ELSE frame[t]]
    /\ UNCHANGED <<agents, system_status, mgr, cache, lock, next_id,
                   analysis_history, cuda, pc, invocations, factory_runs>>

\* Steps of initialize_model and of the cached loaders it calls.
LoadStep(t) ==
    \/ CacheLookup(t)
    \/ CacheAcquire(t)
    \/ CacheBuild(t)

\* Steps of initialize_system.
SystemStep(t) ==
    InitializeSystemFinish(t)

\* Steps of process_image_analysis.
WorkflowStep(t) ==
    \/ IncrementStore(t)
    \/ ValidateStatus(t)
    \/ Preprocess(t)
    \/ Analyze(t)
    \/ AttachMetadata(t)

\* The application as multi_agent_app.py wires it: one coordinator, its
\* manager M1, and the UI's direct calls on M1; one call at a time.
Next ==
    \/ \E r \in Registrations : register_agent(r[1], r[2])
    \/ \E t \in Threads :
          \/ CallInitializeSystem(t, FALSE)
          \/ CallInitializeModel(t, "M1", FALSE)
          \/ CallProcessImageAnalysis(t, FALSE)
          \/ CallGetSystemStatus(t, FALSE)
          \/ CallRunHealthCheck(t, FALSE)
          \/ SystemStep(t)
          \/ LoadStep(t)
          \/ WorkflowStep(t)
          \/ Return(t)
    \/ cleanup_resources("M1")
    \/ cleanup_system
    \/ StoreChange

Spec == Init /\ [][Next]_vars

\* The analysis agent driven by the UI, with its manager M1; one call at
\* a time.
NextAnalysis ==
    \/ \E t \in Threads :
          \/ CallInitializeModel(t, "M1", FALSE)
          \/ LoadStep(t)
          \/ CallAnalyzeImage(t, FALSE)
          \/ \E prompts \in 0..MaxPrompts :
                CallAnalyzeWithMultiplePrompts(t, prompts, FALSE)
          \/ MultiPromptStep(t)
          \/ \E limit \in 0..(MaxHist + 1) : CallGetAnalysisHistory(t, limit, FALSE)
          \/ CallGetStatistics(t, FALSE)
          \/ StatisticsStep(t)
          \/ Return(t)
    \/ clear_history(FALSE)
    \/ cleanup_resources("M1")
    \/ StoreChange

SpecAnalysis == Init /\ [][NextAnalysis]_vars

\* Concurrent callers of the analysis agent's history operations.
NextLedger ==
    \/ \E t \in Threads :
          \/ CallInitializeModel(t, "M1", FALSE)
          \/ LoadStep(t)
          \/ CallAnalyzeImage(t, TRUE)
          \/ CallGetStatistics(t, TRUE)
          \/ StatisticsStep(t)
          \/ Return(t)
    \/ clear_history(TRUE)

SpecLedger == Init /\ [][NextLedger]_vars

\* Concurrent analyze_image calls on the one loaded manager, with callers
\* that may stop waiting.
NextInfer ==
    \E t \in Threads :
        \/ CallInitializeModel(t, "M1", FALSE)
        \/ LoadStep(t)
        \/ BeginAnalyzeImage(t, TRUE)
        \/ CancelInference(t)
        \/ FinishAnalyzeImage(t)
        \/ Return(t)

SpecInfer == Init /\ [][NextInfer]_vars

\* The image agent validating the names of uploaded files.
NextValidate ==
    \E t \in Threads :
        \/ CallValidateImageFormat(t, FALSE)
        \/ Return(t)

SpecValidate == Init /\ [][NextValidate]_vars

\* The coordinator's registry and its health check, over the manager M1
\* and the analysis agent as they are after direct use; one call at a time.
NextHealth ==
    \/ \E r \in HealthRegistrations : register_agent(r[1], r[2])
    \/ \E t \in Threads :
          \/ CallInitializeModel(t, "M1", FALSE)
          \/ LoadStep(t)
          \/ CallAnalyzeImage(t, FALSE)
          \/ CallRunHealthCheck(t, FALSE)
          \/ Return(t)
    \/ cleanup_resources("M1")

SpecHealth == Init /\ [][NextHealth]_vars

\* Several managers (one per session) sharing the process-wide cache; one
\* call at a time.
NextShared ==
    \/ \E t \in Threads :
          \/ \E m \in Managers : CallInitializeModel(t, m, FALSE)
          \/ LoadStep(t)
          \/ Return(t)
    \/ \E m \in Managers : cleanup_resources(m)
    \/ StoreChange

SpecShared == Init /\ [][NextShared]_vars

\* Sessions initializing their managers concurrently.
NextLoad ==
    \/ \E t \in Threads :
          \/ \E m \in Managers : CallInitializeModel(t, m, TRUE)
          \/ LoadStep(t)
          \/ Return(t)
    \/ \E m \in Managers : cleanup_resources(m)
    \/ StoreChange

SpecLoad == Init /\ [][NextLoad]_vars

\* Concurrent callers of process_image_analysis on one coordinator.
NextRun ==
    \/ \E r \in Registrations : register_agent(r[1], r[2])
    \/ \E t \in Threads :
          \/ CallInitializeSystem(t, FALSE)
          \/ CallProcessImageAnalysis(t, TRUE)
          \/ SystemStep(t)
          \/ LoadStep(t)
          \/ WorkflowStep(t)
          \/ Return(t)
    \/ cleanup_system
    \/ StoreChange

SpecRun == Init /\ [][NextRun]_vars

\* The coordinator's workflow on images of every kind; one call at a time.
NextWorkflow ==
    \/ \E r \in Registrations : register_agent(r[1], r[2])
    \/ \E t \in Threads :
          \/ CallInitializeSystem(t, FALSE)
          \/ \E image \in Images : CallProcessImageAnalysisWith(t, image, FALSE)
          \/ SystemStep(t)
          \/ LoadStep(t)
          \/ WorkflowStep(t)
          \/ Return(t)
    \/ cleanup_system

SpecWorkflow == Init /\ [][NextWorkflow]_vars

\* The coordinator and the components it was given, with the queries the
\* UI and the dashboard make between the operations; one call at a time.
NextRead ==
    \/ \E r \in Registrations : register_agent(r[1], r[2])
    \/ \E t \in Threads :
          \/ CallInitializeSystem(t, FALSE)
          \/ CallProcessImageAnalysis(t, FALSE)
          \/ SystemStep(t)
          \/ LoadStep(t)
          \/ WorkflowStep(t)
          \/ CallGetModelStatus(t, "M1", FALSE)
          \/ CallGetSystemStatus(t, FALSE)
          \/ CallRunHealthCheck(t, FALSE)
          \/ \E a \in AgentNames : CallGetAgent(t, a, FALSE)
          \/ \E limit \in 0..MaxHist : CallGetAnalysisHistory(t, limit, FALSE)
          \/ CallGetStatistics(t, FALSE)
          \/ StatisticsStep(t)
          \/ Return(t)
    \/ cleanup_system

SpecRead == Init /\ [][NextRead]_vars

\* ================================================================ claims
FourKeys == <<"model_management", "image_processing", "analysis", "ui">>
ThreeKeys == <<"model_management", "image_processing", "analysis">>

Registered(keys) == \A i \in 1..Len(keys) : agents[keys[i]] # NoInstance
AbsentOf(keys) == SelectSeq(keys, LAMBDA a : agents[a] = NoInstance)

LiveResources ==
    ({cache[k].res : k \in CacheKeys}
       \cup {mgr[m].model : m \in Managers}
       \cup {mgr[m].processor : m \in Managers}) \ {NoRes}

\* C1: every process_image_analysis call that has returned left
\* total_operations exactly one above its value when the call began, whatever
\* the outcome (success, inference failure, exception in the workflow, system
\* not initialized).  Checked for calls made one at a time.
C1_OneIncrementPerCall ==
    \A t \in Threads :
        pc[t] = "rw_done" =>
            system_status.total_operations = frame[t].status0.total_operations + 1

C1_Witness ==
    \E t \in Threads :
        /\ pc[t] = "rw_done"
        /\ frame[t].result.error = "Workflow coordination failed"
        /\ system_status.total_operations = frame[t].status0.total_operations + 1

\* C2: once all concurrent process_image_analysis calls have returned,
\* total_operations equals the number of calls made (no update is lost).
C2_NoLostUpdate ==
    Quiet => system_status.total_operations = invocations

\* C3: concurrent first calls of a cached loader with the same key run the
\* function body at most once, and every caller receives the memoized outcome.
C3_SingleFlight ==
    /\ \A k \in CacheKeys : factory_runs[k] <= 1
    /\ \A t \in Threads : \A g \in frame[t].got : g[2] = cache[g[1]]

C3_Witness ==
    \E t1, t2 \in Threads :
        /\ t1 # t2
        /\ \E k \in frame[t1].miss \cap frame[t2].miss :
              /\ <<k, cache[k]>> \in frame[t1].got
              /\ <<k, cache[k]>> \in frame[t2].got

\* C4: while a key's successfully constructed resource stays in the cache (no
\* clear in the step), no step replaces it or runs its factory again, and a
\* loader call that returns in the step returns that very resource.
C4_HitReturnsSameResource ==
    [][\A k \in CacheKeys :
          (cache[k].present /\ cache[k].res # NoRes /\ cache'[k].present) =>
              /\ cache'[k] = cache[k]
              /\ factory_runs'[k] = factory_runs[k]
              /\ \A t \in Threads : \A g \in frame'[t].got \ frame[t].got :
                    g[1] = k => g[2] = cache[k]]_vars

C4_Witness ==
    /\ mgr["M1"].processor # NoRes
    /\ mgr["M1"].processor = mgr["M2"].processor
    /\ mgr["M1"].model # NoRes
    /\ mgr["M1"].model = mgr["M2"].model
    /\ \A k \in CacheKeys : factory_runs[k] <= 1

\* C5: a failed construction is not memoized: the cache never holds a failure.
C5_FailureNotMemoized ==
    \A k \in CacheKeys : cache[k].present => cache[k].res # NoRes

\* C6: at most one live resource (referenced by the cache or held by a
\* manager) exists per resource key.
C6_OneLiveResourcePerKey ==
    \A r1, r2 \in LiveResources : r1.key = r2.key => r1 = r2

C9_FailedIsReentrant ==
    \A t \in Threads :
        (pc[t] = "is_done" /\ frame[t].missing = <<>> /\ ~frame[t].down) =>
            (frame[t].ret = "True" /\ system_status.initialized)

\* C10: a process_image_analysis call made while the system is not
\* initialized returns a failure, calls neither preprocess_image nor
\* analyze_image, and leaves the history and last_activity as they were.
C10_UninitializedRejected ==
    \A t \in Threads :
        (pc[t] = "rw_done" /\ ~frame[t].status0.initialized) =>
            /\ ~frame[t].result.success
            /\ frame[t].result.error = "System not initialized"
            /\ ~frame[t].pre_called
            /\ ~frame[t].exec_called
            /\ analysis_history = frame[t].hist0
            /\ system_status.last_activity = frame[t].status0.last_activity

C10_Witness ==
    \E t \in Threads :
        /\ pc[t] = "rw_done"
        /\ ~frame[t].status0.initialized
        /\ frame[t].result.error = "System not initialized"

\* C11: a process_image_analysis call whose preprocess_image ran and whose
\* inference raised (analyze_image returned 'Analysis failed') has appended
\* exactly one record, with success = False, to the analysis history.
C11_FailedInferenceRecorded ==
    \A t \in Threads :
        (pc[t] = "rw_done" /\ frame[t].pre_called /\ frame[t].exec_called
           /\ frame[t].result.error = "Analysis failed") =>
            /\ Len(analysis_history) = Len(frame[t].hist0) + 1
            /\ ~analysis_history[Len(analysis_history)].success

\* C12: a record stored in the analysis history is never changed: every step
\* leaves each record that stays in the history as it was.
C12_StoredRecordImmutable ==
    [][\A i \in 1..Len(analysis_history) :
          i <= Len(analysis_history') =>
              analysis_history'[i] = analysis_history[i]]_vars

\* C13: analyze_with_multiple_prompts stops at the first success: when some
\* prompt succeeded the call returns that prompt's result and has made no
\* analyze_image call for any later prompt.
C13_StopsAtFirstSuccess ==
    \A t \in Threads :
        (pc[t] = "mp_done" /\ FirstSuccessful(frame[t].results) # 0) =>
            /\ frame[t].result = frame[t].results[FirstSuccessful(frame[t].results)]
            /\ Len(frame[t].results) = FirstSuccessful(frame[t].results)

\* C14: analyze_with_multiple_prompts with a non-empty prompt list returns
\* the result of the last prompt when no prompt succeeded, and the result of
\* the first successful prompt, in list order, when one did.
C14_FirstSuccessOrLast ==
    \A t \in Threads :
        (pc[t] = "mp_done" /\ frame[t].prompts >= 1) =>
            LET results == frame[t].results
                ok == {i \in 1..Len(results) : results[i].success}
            IN  /\ frame[t].picked \in 1..Len(results)
                /\ frame[t].result = results[frame[t].picked]
                /\ ok = {} => frame[t].picked = Len(results)
                /\ ok # {} => /\ frame[t].picked \in ok
                              /\ \A j \in ok : frame[t].picked <= j
                              /\ frame[t].result.success

C14_Witness ==
    \E t \in Threads :
        /\ pc[t] = "mp_done"
        /\ frame[t].prompts = 3
        /\ ~frame[t].results[1].success
        /\ frame[t].results[2].success
        /\ frame[t].picked = 2

\* C15: analyze_with_multiple_prompts with an empty prompt list returns a
\* failure with the error reserved for that case ('All analysis attempts
\* failed', which no attempted prompt produces), and calls analyze_image
\* zero times: no result was collected and the history is as it was.
C15_NoPromptsFailure ==
    \A t \in Threads :
        (pc[t] = "mp_done" /\ frame[t].prompts = 0) =>
            /\ ~frame[t].result.success
            /\ frame[t].result.error = "All analysis attempts failed"
            /\ frame[t].result.error \notin
                 {analyze_image(g).error : g \in BOOLEAN}
            /\ frame[t].results = <<>>
            /\ analysis_history = frame[t].hist0

C15_Witness ==
    \E t \in Threads :
        /\ pc[t] = "mp_done"
        /\ frame[t].prompts = 0
        /\ frame[t].result.error = "All analysis attempts failed"
        /\ mgr[AnalysisModelAgent].is_loaded

\* C16: analyze_image called while the manager reports is_loaded = False
\* returns the 'Model not loaded' failure of lines 19-25 (returned before
\* any processor or model call), and leaves the history as it was: an empty
\* history stays empty, so get_statistics still gives the no-data message.
C16_NotLoadedRejected ==
    \A t \in Threads :
        (pc[t] = "ai_done" /\ ~frame[t].mgr0[AnalysisModelAgent].is_loaded) =>
            /\ ~frame[t].result.success
            /\ frame[t].result.error = "Model not loaded"
            /\ analysis_history = frame[t].hist0
            /\ (frame[t].hist0 = <<>> => HistoryEmpty)

C16_Witness ==
    \E t \in Threads :
        /\ pc[t] = "ai_done"
        /\ ~frame[t].mgr0[AnalysisModelAgent].is_loaded
        /\ frame[t].mgr0[AnalysisModelAgent].processor # NoRes
        /\ frame[t].result.error = "Model not loaded"

Min(a, b) == IF a <= b THEN a ELSE b

\* C17: get_analysis_history(limit), limit >= 0, returns the
\* min(limit, length) most recent records in the order of the history; in
\* particular the empty list for limit = 0.
C17_TailReturnsMostRecent ==
    \A t \in Threads :
        pc[t] = "gh_done" =>
            LET h == frame[t].hist0
                k == Min(frame[t].limit, Len(h))
            IN  frame[t].history = SubSeq(h, Len(h) - k + 1, Len(h))

\* C18: get_statistics, called with no other call in flight, returns the
\* no-data message exactly when the history is empty, and otherwise the
\* statistics of the whole history, which count at least one record.
C18_MarkerIffEmpty ==
    \A t \in Threads :
        pc[t] = "st_done" =>
            /\ (frame[t].stats.kind = "message") = (frame[t].hist0 = <<>>)
            /\ frame[t].stats.kind # "message" =>
                  /\ frame[t].stats.kind = "stats"
                  /\ frame[t].stats.total_analyses = Len(frame[t].hist0)
                  /\ frame[t].stats.total_analyses >= 1

C18_Witness ==
    \E t \in Threads :
        /\ pc[t] = "st_done"
        /\ frame[t].stats.kind = "stats"
        /\ frame[t].stats.total_analyses = 2

\* C19: a get_statistics call that interleaves with analyze_image and
\* clear_history calls of other threads does not raise, and the statistics
\* it returns are those of one state of the history:
\* total_analyses = successful_analyses + failed_analyses.
C19_StatisticsFromOneSnapshot ==
    \A t \in Threads :
        pc[t] = "st_done" =>
            /\ frame[t].stats.kind # "raise"
            /\ frame[t].stats.kind = "stats" =>
                  frame[t].stats.total_analyses =
                      frame[t].stats.successful_analyses
                        + frame[t].stats.failed_analyses

\* C20: run_health_check with a registered manager whose get_model_status
\* reports is_loaded = False gives that agent the status 'warning' with the
\* single issue 'Model not loaded', lists it among the warnings, and, when
\* no agent's check raised, reports an overall_health other than
\* 'unhealthy'.
C20_NotLoadedIsWarning ==
    \A t \in Threads :
        pc[t] = "hc_done" =>
            \A a \in AgentNames :
                (agents[a] \in Managers /\ ~mgr[agents[a]].is_loaded) =>
                    LET h == frame[t].health
                    IN  /\ h.agent_health[a] =
                             [status |-> "warning", issues |-> <<"Model not loaded">>]
                        /\ <<a, <<"Model not loaded">>>> \in h.warnings
                        /\ (\A b \in AgentNames : h.agent_health[b].status # "error")
                              => h.overall_health # "unhealthy"

C20_Witness ==
    \E t \in Threads :
        /\ pc[t] = "hc_done"
        /\ agents["model_management"] = "M1"
        /\ agents["analysis"] = "ANA"
        /\ ~mgr["M1"].is_loaded
        /\ frame[t].health.overall_health = "healthy"
        /\ frame[t].health.warnings =
             {<<"model_management", <<"Model not loaded">>>>}

\* The health entry lines 154-171 give a registered agent whose probe does
\* not raise.
ProbedHealth(a) ==
    IF agents[a] \in Managers /\ ~mgr[agents[a]].is_loaded
      THEN "warning"
      ELSE IF agents[a] = "ANA" /\ analysis_history = <<>> THEN "info" ELSE "healthy"

\* C21: run_health_check returns a report whatever the probes do; its
\* overall_health is 'unhealthy' exactly when the probe of some registered
\* agent raised; each such agent has status 'error' with the exception text
\* as its issue and is listed in issues; every other registered agent is
\* still probed and reported with its own status.
C21_UnhealthyIffProbeRaised ==
    \A t \in Threads :
        pc[t] = "hc_done" =>
            LET h == frame[t].health
                raising == {a \in AgentNames : agents[a] = "BAD"}
            IN  /\ h.overall_health \in {"healthy", "unhealthy"}
                /\ (h.overall_health = "unhealthy") = (raising # {})
                /\ \A a \in raising :
                      /\ h.agent_health[a] =
                           [status |-> "error", issues |-> <<"Exception: probe failed">>]
                      /\ <<a, <<"Exception: probe failed">>>> \in h.issues
                /\ \A a \in AgentNames \ raising :
                      agents[a] # NoInstance =>
                          h.agent_health[a].status = ProbedHealth(a)

C21_Witness ==
    \E t \in Threads :
        /\ pc[t] = "hc_done"
        /\ agents["test_agent"] = "BAD"
        /\ agents["model_management"] = "M1"
        /\ frame[t].health.overall_health = "unhealthy"
        /\ frame[t].health.agent_health["model_management"].status = "warning"
        /\ frame[t].health.agent_health["test_agent"].status = "error"

\* C22: the registry is empty at construction; a register_agent call binds
\* its key to its component, replacing any earlier binding, and leaves every
\* other key as it was, so get_agent returns the last component registered
\* under a key (None when there was none) and the registered keys and
\* agent_count are the set and number of distinct keys registered; no other
\* operation changes the registry.
C22_LastRegistrationWins ==
    /\ registered_agents = {}
    /\ [][IF \E r \in HealthRegistrations : register_agent(r[1], r[2])
            THEN \A r \in HealthRegistrations :
                    register_agent(r[1], r[2]) =>
                        /\ get_agent(r[1])' = r[2]
                        /\ \A a \in AgentNames \ {r[1]} :
                              get_agent(a)' = get_agent(a)
                        /\ registered_agents' = registered_agents \cup {r[1]}
                        /\ agent_count' = Cardinality(registered_agents \cup {r[1]})
            ELSE \A a \in AgentNames : get_agent(a)' = get_agent(a)]_vars

C22_Witness ==
    /\ get_agent("image_processing") = "UI"
    /\ get_agent("test_agent") = "BAD"
    /\ get_agent("ui") = NoInstance
    /\ registered_agents = {"image_processing", "test_agent", "model_management", "analysis"}
    /\ agent_count = 4

\* A state that cleanup_resources(m) maps to itself.
ResourcesCleanupFixed(m) ==
    /\ mgr[m] = CleanedManager(m)
    /\ \A k \in CacheKeys : cache[k] = Absent /\ factory_runs[k] = 0

\* A state that cleanup_system maps to itself.
SystemCleanupFixed ==
    /\ agents["model_management"] # NoInstance =>
          ResourcesCleanupFixed(agents["model_management"])
    /\ agents["analysis"] # NoInstance => analysis_history = <<>>
    /\ system_status = CleanedStatus
    /\ invocations = 0

\* C23: cleanup is idempotent for the manager and for the coordinator: the
\* state a cleanup_resources or cleanup_system call leaves is one that the
\* same call, made again at once, leaves exactly as it is.
C23_CleanupIdempotent ==
    [][/\ cleanup_resources("M1") => ResourcesCleanupFixed("M1")'
       /\ cleanup_system => SystemCleanupFixed'
       /\ (ResourcesCleanupFixed("M1") /\ cleanup_resources("M1")) => UNCHANGED vars
       /\ (SystemCleanupFixed /\ cleanup_system) => UNCHANGED vars]_vars

C23_Witness ==
    /\ Quiet
    /\ SystemCleanupFixed
    /\ ResourcesCleanupFixed("M1")
    /\ agents["model_management"] = "M1"
    /\ agents["analysis"] = "ANA"
    /\ next_id > 2
    /\ system_status.last_activity > 0

\* C24: a cleanup_system call on a coordinator with its manager and its
\* analysis agent registered leaves initialized False, total_operations 0,
\* last_activity as it was before the call, the history empty, the manager
\* with is_loaded False and neither model nor processor, and the cache
\* without any entry.
C24_CleanupPostState ==
    [][(cleanup_system /\ agents["model_management"] # NoInstance
          /\ agents["analysis"] # NoInstance) =>
          /\ ~system_status'.initialized
          /\ system_status'.total_operations = 0
          /\ system_status'.last_activity = system_status.last_activity
          /\ analysis_history' = <<>>
          /\ LET m == mgr'[agents["model_management"]]
             IN  ~m.is_loaded /\ m.model = NoRes /\ m.processor = NoRes
          /\ \A k \in CacheKeys : ~cache'[k].present]_vars

C24_Witness ==
    /\ Quiet
    /\ Registered(FourKeys)
    /\ ~system_status.initialized
    /\ system_status.total_operations = 0
    /\ system_status.last_activity = MaxTime
    /\ analysis_history = <<>>
    /\ ~mgr["M1"].is_loaded
    /\ mgr["M1"].device # "none"
    /\ \A k \in CacheKeys : ~cache[k].present /\ factory_runs[k] = 0
    /\ next_id > 2

\* C25 as stated: no step of any coordinator operation (register_agent,
\* initialize_system, process_image_analysis, get_system_status,
\* run_health_check, cleanup_system) makes total_operations smaller.
C25_NeverDecreases ==
    [][system_status'.total_operations >= system_status.total_operations]_vars

\* C25 amended: over coordinator operations made one at a time,
\* total_operations never becomes smaller except by cleanup_system, which
\* sets it to 0.
C25_DecreasesOnlyByCleanup ==
    [][IF cleanup_system
         THEN system_status'.total_operations = 0
         ELSE system_status'.total_operations >= system_status.total_operations]_vars

C25_Witness ==
    /\ Quiet
    /\ system_status.total_operations = 0
    /\ system_status.last_activity > 0
    /\ invocations = 0
    /\ analysis_history = <<>>

LoadPositions == {"lp_lookup", "lp_lock", "lp_build", "lm_lookup", "lm_lock", "lm_build"}

ObtainedBy(t, loader) ==
    \E g \in frame[t].got : g[1][1] = loader /\ g[2].res # NoRes

\* C26: initialize_model sets is_loaded only in the step that obtains the
\* model after the processor was obtained, and then returns success; every
\* other step of the call leaves is_loaded as it was, and a call that ends
\* without one of the two returns a failure: after a processor failure the
\* model loader has not been called, and after a model failure the manager
\* holds the processor but is not marked loaded by this call.
C26_LoadedOnlyOnFullSuccess ==
    [][\A t \in Threads :
          (pc'[t] \in LoadPositions \cup {"im_done"}
             /\ <<pc[t], frame[t]>> # <<pc'[t], frame'[t]>>) =>
              LET m == frame'[t].mgr
              IN  IF pc'[t] = "im_done" /\ frame'[t].im_ret = "ok"
                    THEN /\ mgr'[m].is_loaded
                         /\ mgr'[m].processor # NoRes /\ mgr'[m].model # NoRes
                         /\ ObtainedBy(t, "_load_processor_cached")'
                         /\ ObtainedBy(t, "_load_model_cached")'
                    ELSE /\ mgr'[m].is_loaded = mgr[m].is_loaded
                         /\ pc'[t] = "im_done" =>
                              /\ frame'[t].im_ret \in
                                   {"Failed to load processor", "Failed to load model"}
                              /\ frame'[t].im_ret = "Failed to load processor" =>
                                   /\ mgr'[m].processor = NoRes
                                   /\ \A g \in frame'[t].got :
                                         g[1][1] = "_load_processor_cached"
                              /\ frame'[t].im_ret = "Failed to load model" =>
                                   /\ ObtainedBy(t, "_load_processor_cached")'
                                   /\ mgr'[m].model = NoRes]_vars

C26_Witness ==
    \E t \in Threads :
        /\ pc[t] = "im_done"
        /\ frame[t].im_ret = "Failed to load model"
        /\ mgr[frame[t].mgr].processor # NoRes
        /\ mgr[frame[t].mgr].model = NoRes
        /\ ~mgr[frame[t].mgr].is_loaded

\* C27: process_image_analysis always returns a dict, and never reports a
\* failure as a success: a call made on an uninitialized system, one whose
\* preprocessing or analysis stage raised, and one whose analyze_image
\* returned a failure all return success = False with an error text; the
\* returned dict has success = True only when analyze_image ran on a loaded
\* model and its inference succeeded (the result it stored in the history).
C27_FailureNeverDowngraded ==
    \A t \in Threads :
        pc[t] = "rw_done" =>
            LET r == frame[t].result
            IN  /\ r.kind \in {"record", "failure"}
                /\ ~r.success => r.error # "none"
                /\ ~frame[t].status0.initialized =>
                      ~r.success /\ r.error = "System not initialized"
                /\ (~frame[t].pre_called \/ ~frame[t].exec_called) => ~r.success
                /\ (frame[t].status0.initialized /\ ~frame[t].exec_called) =>
                      r.error = "Workflow coordination failed"
                /\ r.success =>
                      /\ r.kind = "record" /\ r.error = "none"
                      /\ frame[t].pre_called /\ frame[t].exec_called
                      /\ mgr[AnalysisModelAgent].is_loaded
                      /\ r.hist = Len(frame[t].hist0) + 1
                      /\ r.hist <= Len(analysis_history)
                      /\ analysis_history[r.hist].success

C27_Witness ==
    \E t \in Threads :
        /\ pc[t] = "rw_done"
        /\ frame[t].pre_called
        /\ frame[t].exec_called
        /\ ~frame[t].result.success
        /\ frame[t].result.error = "Analysis failed"
        /\ frame[t].result.meta = 2

\* C28: in process_image_analysis the increment of total_operations comes
\* first: while it has not been stored neither the initialized check nor
\* preprocess_image nor analyze_image has run, and from the initialized
\* check on the counter is one above its value when the call began.
C28_IncrementBeforeWork ==
    \A t \in Threads :
        /\ pc[t] = "rw_store" =>
              /\ ~frame[t].pre_called /\ ~frame[t].exec_called
              /\ frame[t].result = NoResult
              /\ system_status = frame[t].status0
        /\ pc[t] \in {"rw_check", "rw_pre", "rw_analyze", "rw_stamp"} =>
              system_status.total_operations =
                  frame[t].status0.total_operations + 1

C28_Witness ==
    \E t \in Threads :
        /\ pc[t] = "rw_pre"
        /\ agents["image_processing"] = "UI"
        /\ ~frame[t].pre_called
        /\ system_status.total_operations = frame[t].status0.total_operations + 1

\* C29: an analyze_image call whose caller cancelled it, or timed out on
\* it, during the inference returns a failure with the error Cancelled.
C29_CancelledReturnsCancelled ==
    \A t \in Threads :
        (pc[t] = "ai_done" /\ frame[t].cancelled) =>
            /\ ~frame[t].result.success
            /\ frame[t].result.error = "Cancelled"

\* The filename has an extension, the text after its last '.', and that
\* extension is, ignoring case, a supported format.
HasSupportedExtension(filename) ==
    \E i \in 1..Len(filename) :
        /\ filename[i] = "."
        /\ \A j \in (i + 1)..Len(filename) : filename[j] # "."
        /\ lower(SubSeq(filename, i + 1, Len(filename))) \in supported_formats

\* C30: validate_image_format accepts a filename exactly when it has an
\* extension that is, case-insensitively, one of png, jpg, jpeg, gif, bmp;
\* the empty name, names without a '.' and names with another extension are
\* rejected.
C30_AcceptsIffSupportedExtension ==
    \A t \in Threads :
        pc[t] = "vf_done" =>
            frame[t].valid = HasSupportedExtension(frame[t].filename)

\* The positions of a process_image_analysis call before analyze_image
\* has returned.
BeforeInference == {"rw_store", "rw_check", "rw_pre", "rw_analyze"}

\* C31: a process_image_analysis call runs preprocess_image, then
\* analyze_image, then the history append, then the last_activity stamp:
\* analyze_image is called only after preprocess_image returned and is
\* given the image it returned; until analyze_image has run the history is
\* as it was when the call began; a successful inference has added its one
\* record before the stamp, and the metadata is attached after both.
C31_StepsInOrder ==
    \A t \in Threads :
        /\ pc[t] \in BeforeInference =>
              /\ ~frame[t].exec_called
              /\ analysis_history = frame[t].hist0
              /\ system_status.last_activity = frame[t].status0.last_activity
              /\ frame[t].result.meta = 0
        /\ pc[t] = "rw_analyze" =>
              /\ frame[t].pre_called
              /\ frame[t].processed = preprocess_image(frame[t].image)
        /\ pc[t] \in {"rw_stamp", "rw_done"} /\ frame[t].exec_called =>
              /\ frame[t].pre_called
              /\ frame[t].analyzed = preprocess_image(frame[t].image)
              /\ Len(analysis_history) =
                    Len(frame[t].hist0) + (IF frame[t].result.success THEN 1 ELSE 0)
        /\ pc[t] = "rw_stamp" =>
              /\ frame[t].exec_called
              /\ system_status.last_activity = frame[t].status0.last_activity
              /\ frame[t].result.meta = 0
        /\ pc[t] = "rw_done" /\ frame[t].exec_called =>
              /\ frame[t].result.meta = system_status.total_operations
              /\ frame[t].result.meta > 0

C31_Witness ==
    \E t \in Threads :
        /\ pc[t] = "rw_done"
        /\ frame[t].image = [mode |-> "RGBA", large |-> TRUE]
        /\ frame[t].analyzed = [mode |-> "RGB", large |-> FALSE]
        /\ frame[t].result.success
        /\ Len(analysis_history) = 2
        /\ analysis_history[2].meta = 2

\* The components that expose get_model_status, and those that expose
\* get_statistics.
WithStatus == Managers \cup {"BAD", "DUAL"}
WithStatistics == {"ANA", "DUAL"}

\* C32: run_health_check judges a registered component that has
\* get_model_status by it alone, whatever its get_statistics would return
\* ('warning' when it reports is_loaded False, else 'healthy', 'error' when
\* it raises); a component that has only get_statistics by that ('info'
\* with the message when it returns the 'message' dict, else 'healthy'); a
\* component that has neither is 'healthy' with no issues.
C32_StatusBeforeStatistics ==
    \A t \in Threads :
        pc[t] = "hc_done" =>
            \A a \in AgentNames :
                LET agent == agents[a]
                    h == frame[t].health.agent_health[a]
                IN  /\ agent \in WithStatus =>
                          h = IF agent = "BAD"
                                THEN [status |-> "error",
                                      issues |-> <<"Exception: probe failed">>]
                              ELSE IF agent \in Managers /\ ~mgr[agent].is_loaded
                                THEN [status |-> "warning",
                                      issues |-> <<"Model not loaded">>]
                                ELSE [status |-> "healthy", issues |-> <<>>]
                    /\ agent \in WithStatistics \ WithStatus =>
                          h = IF analysis_history = <<>>
                                THEN [status |-> "info",
                                      issues |-> <<"No analysis history available">>]
                                ELSE [status |-> "healthy", issues |-> <<>>]
                    /\ (agent # NoInstance /\ agent \notin WithStatus \cup WithStatistics) =>
                          h = [status |-> "healthy", issues |-> <<>>]

C32_Witness ==
    \E t \in Threads :
        /\ pc[t] = "hc_done"
        /\ agents["test_agent"] = "DUAL"
        /\ agents["analysis"] = "ANA"
        /\ agents["image_processing"] = "UI"
        /\ analysis_history = <<>>
        /\ frame[t].health.agent_health["test_agent"].status = "healthy"
        /\ frame[t].health.agent_health["analysis"].status = "info"
        /\ frame[t].health.agent_health["image_processing"].status = "healthy"

\* The positions a call of get_model_status, get_system_status,
\* run_health_check, get_agent, get_analysis_history or get_statistics
\* passes through.
ReadPositions ==
    {"ms_done", "gs_done", "hc_done", "ga_done", "gh_done",
     "st_succ", "st_fail", "st_build", "st_done"}

\* C33: no step of get_model_status, get_system_status, run_health_check,
\* get_agent, get_analysis_history or get_statistics changes system_status,
\* the registry, the history, or any manager's is_loaded, model or
\* processor; system_status changes only in a step of initialize_system,
\* of process_image_analysis or of cleanup_system.
C33_ReadsChangeNothing ==
    [][/\ (\E t \in Threads : pc'[t] \in ReadPositions /\ pc'[t] # pc[t]) =>
             /\ system_status' = system_status
             /\ agents' = agents
             /\ analysis_history' = analysis_history
             /\ mgr' = mgr
       /\ system_status' # system_status =>
             \/ cleanup_system
             \/ \E t \in Threads :
                   /\ pc[t] \in {"is_post", "rw_store", "rw_stamp"}
                   /\ pc'[t] # pc[t]]_vars

C33_Witness ==
    \E t \in Threads :
        /\ pc[t] = "ms_done"
        /\ frame[t].model_status.is_loaded
        /\ frame[t].model_status.has_model
        /\ frame[t].model_status.has_processor
        /\ system_status.initialized
        /\ system_status.total_operations = 2
        /\ Len(analysis_history) = 1
        /\ mgr["M1"].is_loaded

\* C34: a manager with is_loaded True holds both its model and its
\* processor, after any sequence of initialize_model and cleanup_resources
\* calls on the managers that share the cache.
C34_LoadedHasBothReferences ==
    \A m \in Managers :
        mgr[m].is_loaded => mgr[m].model # NoRes /\ mgr[m].processor # NoRes

\* C35: whenever system_status['initialized'] is True the manager
\* registered under 'model_management' has is_loaded True, whatever
\* coordinator operations and direct calls on the manager were made.
C35_InitializedImpliesLoaded ==
    system_status.initialized =>
        /\ agents["model_management"] \in Managers
        /\ mgr[agents["model_management"]].is_loaded

\* C36: when initialize_system has returned False,
\* system_status['initialized'] is False.
C36_FailedInitializeLeavesUninitialized ==
    \A t \in Threads :
        (pc[t] = "is_done" /\ frame[t].ret = "False") =>
            ~system_status.initialized

\* C37: in every state reached through coordinator operations alone
\* (register_agent, initialize_system, process_image_analysis calls that
\* may run concurrently, cleanup_system) the history holds at most
\* total_operations records.
C37_HistoryWithinOperations ==
    Len(analysis_history) <= system_status.total_operations

\* C38: one analyze_with_multiple_prompts call appends at most one record
\* to the history, however many prompts it is given and whichever succeed.
C38_MultiPromptAppendsAtMostOne ==
    \A t \in Threads :
        pc[t] \in {"mp_loop", "mp_done"} =>
            Len(analysis_history) <= Len(frame[t].hist0) + 1

====
